---- MODULE Spec2Model ----
(***************************************************************************)
(* Model of the Nota binary codec (src/lib.rs): Value::serialize_into and  *)
(* Value::parse_from with their helpers.                                   *)
(*                                                                         *)
(* Fixed-width machine integers (u128/i128, usize, u32) are bit vectors:   *)
(* functions from bit index (0 = least significant) to {0,1}, so shifts    *)
(* drop bits and casts reinterpret them exactly as the machine does.       *)
(* Bytes and code points are small naturals.                               *)
(***************************************************************************)
EXTENDS Integers, Sequences, FiniteSets, TLC

VARIABLES build, value, into, input, result, pc

vars == <<build, value, into, input, result, pc>>

(***************************************************************************)
(* Machine widths                                                          *)
(***************************************************************************)
\* u128 / i128 (Value::Integer(i128), `as u128`)
U128Bits == 128
\* usize on the 64-bit targets the crate is built for
UsizeBits == 64
\* u32 accumulator of read_kim_char
U32Bits == 32

(***************************************************************************)
(* Bit-vector primitives                                                   *)
(***************************************************************************)
Pow2(n) == 2 ^ n

\* the all-zero word of width w
Zero(w) == [i \in 0..(w - 1) |-> 0]

\* `n as uW` for a small natural n (n < 2^30)
FromNat(n, w) == [i \in 0..(w - 1) |-> IF i < 30 THEN (n \div Pow2(i)) % 2 ELSE 0]

\* the low k bits of v as a natural (k <= 30): `v as u8`, `v & mask`
RECURSIVE LowBits(_, _)
LowBits(v, k) == IF k = 0 THEN 0 ELSE v[k - 1] * Pow2(k - 1) + LowBits(v, k - 1)

\* index of the highest set bit among lo..hi, -1 if there is none (by halving)
RECURSIVE HighestSet(_, _, _)
HighestSet(v, lo, hi) ==
  IF lo > hi THEN -1
  ELSE IF lo = hi THEN (IF v[lo] = 1 THEN lo ELSE -1)
  ELSE LET mid == (lo + hi + 1) \div 2
       IN IF \E i \in mid..hi : v[i] = 1 THEN HighestSet(v, mid, hi)
          ELSE HighestSet(v, lo, mid - 1)

\* number of significant bits: W - v.leading_zeros()
BitLen(v, w) == HighestSet(v, 0, w - 1) + 1

leading_zeros(v, w) == w - BitLen(v, w)

\* v >> n (logical, n < w)
Shr(v, n, w) == [i \in 0..(w - 1) |-> IF i + n < w THEN v[i + n] ELSE 0]

\* v << n: the bits shifted past the top are dropped, with no overflow check
Shl(v, n, w) == [i \in 0..(w - 1) |-> IF i >= n THEN v[i - n] ELSE 0]

\* v | u
BitOrW(v, u, w) == [i \in 0..(w - 1) |-> IF v[i] = 1 \/ u[i] = 1 THEN 1 ELSE 0]

\* the carry into bit i of v + u: that of the highest bit below i which either
\* generates a carry (1 + 1) or absorbs one (0 + 0)
CarryInto(v, u, i) ==
  LET h == HighestSet([k \in 0..(i - 1) |-> IF v[k] + u[k] # 1 THEN 1 ELSE 0], 0, i - 1)
  IN IF h >= 0 /\ v[h] + u[h] = 2 THEN 1 ELSE 0

\* carries of v + u
Carry(v, u, w) == [i \in 0..w |-> CarryInto(v, u, i)]

\* wrapping v + u
AddW(v, u, w) ==
  LET c == Carry(v, u, w)
  IN [i \in 0..(w - 1) |-> (v[i] + u[i] + c[i]) % 2]

\* whether v + u overflows the width
AddOverflows(v, u, w) == Carry(v, u, w)[w] = 1

\* unsigned v < u: decided at the highest bit that differs
ULt(v, u, w) ==
  LET h == HighestSet([i \in 0..(w - 1) |-> IF v[i] # u[i] THEN 1 ELSE 0], 0, w - 1)
  IN h >= 0 /\ u[h] = 1

\* index of the lowest set bit among lo..hi, hi + 1 if there is none (by halving)
RECURSIVE LowestSet(_, _, _)
LowestSet(v, lo, hi) ==
  IF lo > hi THEN hi + 1
  ELSE IF lo = hi THEN (IF v[lo] = 1 THEN lo ELSE hi + 1)
  ELSE LET mid == (lo + hi) \div 2
       IN IF \E i \in lo..mid : v[i] = 1 THEN LowestSet(v, lo, mid)
          ELSE LowestSet(v, mid + 1, hi)

\* two's complement wrapping negation: the bits above the lowest set bit flip
WrappingNeg(v, w) ==
  LET low == LowestSet(v, 0, w - 1)
  IN [i \in 0..(w - 1) |-> IF i > low THEN 1 - v[i] ELSE v[i]]

\* signed value < 0
IsNegative(v, w) == v[w - 1] = 1

\* the most negative value, whose negation overflows
IsMin(v, w) == v[w - 1] = 1 /\ LowestSet(v, 0, w - 1) = w - 1

\* a & b and a | b on bytes and code points
RECURSIVE BitAnd(_, _)
BitAnd(a, b) ==
  IF a = 0 \/ b = 0 THEN 0
  ELSE (a % 2) * (b % 2) + 2 * BitAnd(a \div 2, b \div 2)

RECURSIVE BitOr(_, _)
BitOr(a, b) ==
  IF a = 0 THEN b
  ELSE IF b = 0 THEN a
  ELSE (IF a % 2 = 1 \/ b % 2 = 1 THEN 1 ELSE 0) + 2 * BitOr(a \div 2, b \div 2)

\* `x as u8` for a natural x
AsU8(x) == x % 256

(***************************************************************************)
(* Outcomes of a call: normal return, io::Error, or panic                  *)
(***************************************************************************)
\* overflow checks are on in debug builds (cargo test) and off in release
OverflowChecks(b) == b = "debug"

Wrote(out) == [st |-> "ok", out |-> out]
Panicked(out) == [st |-> "panic", out |-> out]

(***************************************************************************)
(* Integer preamble codec (encode side)                                    *)
(***************************************************************************)
\* while bit_len > 0 { push 7 bits; if bit_len <= 7 break; bit_len -= 7 }
RECURSIVE serialize_integer_continuation(_, _, _)
serialize_integer_continuation(val, bit_len, out) ==
  IF bit_len > 0 THEN
    LET next == BitAnd(AsU8(LowBits(Shr(val, bit_len - 7, U128Bits), 8)), 127)
        c == IF bit_len > 7 THEN 128 ELSE 0
        pushed == Append(out, BitOr(next, c))
    IN IF bit_len <= 7 THEN pushed
       ELSE serialize_integer_continuation(val, bit_len - 7, pushed)
  ELSE out

\* faulty variant: rounds up with + 7, spending a byte on a magnitude that fits exactly
signed_bit_len_round_up(minimum_bit_len) ==
  3 + (((IF minimum_bit_len > 3 THEN minimum_bit_len - 3 ELSE 0) + 7) \div 7) * 7

\* 3 + ((minimum_bit_len.saturating_sub(3) + 6) / 7) * 7
signed_bit_len(minimum_bit_len) ==
  3 + (((IF minimum_bit_len > 3 THEN minimum_bit_len - 3 ELSE 0) + 6) \div 7) * 7

\* 4 + ((minimum_bit_len.saturating_sub(4) + 6) / 7) * 7
unsigned_bit_len(minimum_bit_len) ==
  4 + (((IF minimum_bit_len > 4 THEN minimum_bit_len - 4 ELSE 0) + 6) \div 7) * 7

\* faulty variant: the sign bit is left out of the header
signed_header_no_sign(header, sign_bit, next, bit_len) ==
  BitOr(BitOr(header, next), IF bit_len > 3 THEN 16 ELSE 0)

\* header | (sign_bit << 3) | next | continuation flag
signed_header(header, sign_bit, next, bit_len) ==
  BitOr(BitOr(BitOr(header, sign_bit * 8), next), IF bit_len > 3 THEN 16 ELSE 0)

\* val: the i128 argument as its 128 bits
serialize_signed_preamble(header, val, out, b) ==
  IF IsNegative(val, U128Bits) /\ IsMin(val, U128Bits) /\ OverflowChecks(b)
  THEN Panicked(out)   \* `-value` overflows
  ELSE
    LET sign_bit == IF IsNegative(val, U128Bits) THEN 1 ELSE 0
        mag == IF IsNegative(val, U128Bits) THEN WrappingNeg(val, U128Bits) ELSE val
        minimum_bit_len == U128Bits - leading_zeros(mag, U128Bits)
        bit_len == signed_bit_len(minimum_bit_len)
        next == AsU8(BitAnd(LowBits(Shr(mag, bit_len - 3, U128Bits), 3), 7))
    IN Wrote(serialize_integer_continuation(mag, bit_len - 3,
               Append(out, signed_header(header, sign_bit, next, bit_len))))

\* val: the u128 argument as its 128 bits
serialize_unsigned_preamble(header, val, out) ==
  LET minimum_bit_len == U128Bits - leading_zeros(val, U128Bits)
      bit_len == unsigned_bit_len(minimum_bit_len)
      next == AsU8(BitAnd(LowBits(Shr(val, bit_len - 4, U128Bits), 4), 15))
      flag == IF bit_len > 4 THEN 16 ELSE 0
  IN serialize_integer_continuation(val, bit_len - 4,
       Append(out, BitOr(BitOr(header, next), flag)))

(***************************************************************************)
(* The value model                                                         *)
(***************************************************************************)
\* Value::Blob(BitVec<u8, Msb0>): len bits stored in raw, (len + 7) / 8 bytes
Blob(len, raw) == [kind |-> "Blob", len |-> len, raw |-> raw]
\* Value::Text(String): the string's chars as code points
Text(chars) == [kind |-> "Text", chars |-> chars]
\* Value::Array(Vec<Value>)
Array(items) == [kind |-> "Array", items |-> items]
\* Value::Record(HashMap<String, Value>): a function from keys to values
Record(map) == [kind |-> "Record", map |-> map]
\* Value::Integer(i128): the 128 bits, two's complement
Integer(val) == [kind |-> "Integer", val |-> val]
\* Value::Bool(bool)
Bool(b) == [kind |-> "Bool", b |-> b]

\* bit i (1-based, most significant bit of each byte first) of a byte vector
BitAt(raw, i) == (raw[((i - 1) \div 8) + 1] \div Pow2(7 - ((i - 1) % 8))) % 2

\* the live bits of a BitVec; the bits of raw past len are dead
BlobBits(len, raw) == [i \in 1..len |-> BitAt(raw, i)]

\* #[derive(PartialEq)] on Value; BitVec equality compares the live bits only
RECURSIVE ValueEq(_, _)
ValueEq(a, b) ==
  /\ a.kind = b.kind
  /\ CASE a.kind = "Blob" -> a.len = b.len /\ BlobBits(a.len, a.raw) = BlobBits(b.len, b.raw)
       [] a.kind = "Text" -> a.chars = b.chars
       [] a.kind = "Array" ->
            /\ Len(a.items) = Len(b.items)
            /\ \A i \in 1..Len(a.items) : ValueEq(a.items[i], b.items[i])
       [] a.kind = "Record" ->
            /\ DOMAIN a.map = DOMAIN b.map
            /\ \A k \in DOMAIN a.map : ValueEq(a.map[k], b.map[k])
       [] a.kind = "Integer" -> a.val = b.val
       [] a.kind = "Bool" -> a.b = b.b
       [] OTHER -> FALSE

(***************************************************************************)
(* Encoding                                                                *)
(***************************************************************************)
write_kim_char(code_point, out) ==
  LET val == code_point
  IN IF val < 128 THEN Append(out, AsU8(val))
     ELSE LET hi == IF val >= Pow2(14)
                    THEN Append(out, BitOr(128, AsU8(val \div Pow2(14))))
                    ELSE out
          IN Append(Append(hi, BitOr(128, AsU8(val \div Pow2(7)))),
                    BitAnd(AsU8(val), 127))

RECURSIVE write_chars(_, _, _)
write_chars(chars, i, out) ==
  IF i > Len(chars) THEN out
  ELSE write_chars(chars, i + 1, write_kim_char(chars[i], out))

serialize_string(chars, out) ==
  write_chars(chars, 1,
    serialize_unsigned_preamble(32, FromNat(Len(chars), U128Bits), out))

\* the orders in which a HashMap may yield its keys
IterationOrders(keys) ==
  {o \in [1..Cardinality(keys) -> keys] : \A i, j \in DOMAIN o : i # j => o[i] # o[j]}

\* serialize_into returns the set of outcomes the call may have: the bytes
\* depend on the HashMap iteration order, and a nested panic unwinds
RECURSIVE serialize_into(_, _, _)
RECURSIVE serialize_items(_, _, _, _)
RECURSIVE serialize_entries(_, _, _, _, _)

serialize_items(items, i, outcomes, b) ==
  IF i > Len(items) THEN outcomes
  ELSE serialize_items(items, i + 1,
         UNION {IF o.st = "ok" THEN serialize_into(items[i], o.out, b) ELSE {o}
                : o \in outcomes}, b)

serialize_entries(map, order, i, outcomes, b) ==
  IF i > Len(order) THEN outcomes
  ELSE serialize_entries(map, order, i + 1,
         UNION {IF o.st = "ok"
                THEN serialize_into(map[order[i]], serialize_string(order[i], o.out), b)
                ELSE {o}
                : o \in outcomes}, b)

serialize_into(v, out, b) ==
  CASE v.kind = "Blob" ->
         {Wrote(serialize_unsigned_preamble(0, FromNat(v.len, U128Bits), out) \o v.raw)}
    [] v.kind = "Text" -> {Wrote(serialize_string(v.chars, out))}
    [] v.kind = "Array" ->
         serialize_items(v.items, 1,
           {Wrote(serialize_unsigned_preamble(64, FromNat(Len(v.items), U128Bits), out))}, b)
    [] v.kind = "Record" ->
         UNION {serialize_entries(v.map, order, 1,
                  {Wrote(serialize_unsigned_preamble(96,
                     FromNat(Cardinality(DOMAIN v.map), U128Bits), out))}, b)
                : order \in IterationOrders(DOMAIN v.map)}
    [] v.kind = "Integer" -> {serialize_signed_preamble(128, v.val, out, b)}
    [] v.kind = "Bool" -> {Wrote(Append(out, BitOr(192, IF v.b THEN 1 ELSE 0)))}

(***************************************************************************)
(* Decoding.  A reader is the byte sequence and the count of bytes         *)
(* consumed; every outcome carries the position the reader is left at.     *)
(***************************************************************************)
POk(v, pos) == [st |-> "ok", val |-> v, pos |-> pos]
PErr(kind, pos) == [st |-> "err", kind |-> kind, pos |-> pos]
PPanic(pos) == [st |-> "panic", pos |-> pos]

\* reader.read_exact of one byte
AtEof(bytes, pos) == pos >= Len(bytes)
NextByte(bytes, pos) == bytes[pos + 1]

\* the loop of parse_len
RECURSIVE parse_len_loop(_, _, _)
parse_len_loop(len, bytes, pos) ==
  LET shifted == Shl(len, 7, UsizeBits)
  IN IF AtEof(bytes, pos) THEN PErr("UnexpectedEof", pos)
     ELSE LET next == NextByte(bytes, pos)
              acc == BitOrW(shifted, FromNat(BitAnd(next, 127), UsizeBits), UsizeBits)
          IN IF BitAnd(next, 128) = 0 THEN POk(acc, pos + 1)
             ELSE parse_len_loop(acc, bytes, pos + 1)

parse_len(preamble, bytes, pos) ==
  LET len == FromNat(BitAnd(preamble, 15), UsizeBits)
  IN IF BitAnd(preamble, 16) # 0 THEN parse_len_loop(len, bytes, pos)
     ELSE POk(len, pos)

\* char::from_u32: Some for a Unicode scalar value
IsScalarValue(val) ==
  /\ BitLen(val, U32Bits) <= 21
  /\ LET n == LowBits(val, 21)
     IN n < 55296 \/ (n >= 57344 /\ n <= 1114111)

RECURSIVE read_kim_loop(_, _, _)
read_kim_loop(val, bytes, pos) ==
  IF AtEof(bytes, pos) THEN PErr("UnexpectedEof", pos)
  ELSE LET next == NextByte(bytes, pos)
           acc == BitOrW(val, FromNat(BitAnd(next, 127), U32Bits), U32Bits)
       IN IF BitAnd(next, 128) = 0
          THEN IF IsScalarValue(acc) THEN POk(LowBits(acc, 21), pos + 1)
               ELSE PErr("InvalidData", pos + 1)
          ELSE read_kim_loop(Shl(acc, 7, U32Bits), bytes, pos + 1)

read_kim_char(bytes, pos) == read_kim_loop(Zero(U32Bits), bytes, pos)

\* (len + 7) / 8 on usize, the addition wrapping
blob_len_bytes(len) ==
  Shr(AddW(len, FromNat(7, UsizeBits), UsizeBits), 3, UsizeBits)

\* whether len + 7 overflows usize (a panic under overflow checks)
blob_len_overflows(len) == AddOverflows(len, FromNat(7, UsizeBits), UsizeBits)

\* faulty variant: read_to_end without take, reading all that is left
take_count_all(len_bytes, bytes, pos) == Len(bytes) - pos

\* reader.take(len_bytes).read_to_end(&mut out): the count of bytes read
take_count(len_bytes, bytes, pos) ==
  LET avail == Len(bytes) - pos
  IN IF ULt(FromNat(avail, UsizeBits), len_bytes, UsizeBits) THEN avail
     ELSE LowBits(len_bytes, 30)

\* BitVec::from_vec(out), then out.truncate(len) if len & 7 != 0
blob_bit_len(len, out_len) ==
  IF LowBits(len, 3) # 0 /\ ULt(len, FromNat(8 * out_len, UsizeBits), UsizeBits)
  THEN LowBits(len, 30)
  ELSE 8 * out_len

\* faulty variant: the check of out.len() against len_bytes is left out
parse_blob_unchecked(preamble, bytes, pos, b) ==
  LET l == parse_len(preamble, bytes, pos)
  IN IF l.st # "ok" THEN l
     ELSE IF blob_len_overflows(l.val) /\ OverflowChecks(b) THEN PPanic(l.pos)
     ELSE LET len_bytes == blob_len_bytes(l.val)
              n == take_count(len_bytes, bytes, l.pos)
              out == SubSeq(bytes, l.pos + 1, l.pos + n)
          IN POk(Blob(blob_bit_len(l.val, n), out), l.pos + n)

parse_blob(preamble, bytes, pos, b) ==
  LET l == parse_len(preamble, bytes, pos)
  IN IF l.st # "ok" THEN l
     ELSE IF blob_len_overflows(l.val) /\ OverflowChecks(b) THEN PPanic(l.pos)
     ELSE LET len_bytes == blob_len_bytes(l.val)
              n == take_count(len_bytes, bytes, l.pos)
              out == SubSeq(bytes, l.pos + 1, l.pos + n)
          IN IF FromNat(n, UsizeBits) # len_bytes
             THEN PErr("UnexpectedEof", l.pos + n)
             ELSE POk(Blob(blob_bit_len(l.val, n), out), l.pos + n)

\* for _ in 0..len { out.push(read_kim_char(reader)?) }
RECURSIVE parse_text_loop(_, _, _, _, _)
parse_text_loop(len, i, out, bytes, pos) ==
  IF ~ULt(FromNat(i, UsizeBits), len, UsizeBits) THEN POk(Text(out), pos)
  ELSE LET c == read_kim_char(bytes, pos)
       IN IF c.st # "ok" THEN c
          ELSE parse_text_loop(len, i + 1, Append(out, c.val), bytes, c.pos)

parse_text(preamble, bytes, pos) ==
  LET l == parse_len(preamble, bytes, pos)
  IN IF l.st # "ok" THEN l
     ELSE parse_text_loop(l.val, 0, <<>>, bytes, l.pos)

\* the loop of the integer branch
RECURSIVE parse_integer_loop(_, _, _)
parse_integer_loop(val, bytes, pos) ==
  LET shifted == Shl(val, 7, U128Bits)
  IN IF AtEof(bytes, pos) THEN PErr("UnexpectedEof", pos)
     ELSE LET next == NextByte(bytes, pos)
              acc == BitOrW(shifted, FromNat(BitAnd(next, 127), U128Bits), U128Bits)
          IN IF BitAnd(next, 128) = 0 THEN POk(acc, pos + 1)
             ELSE parse_integer_loop(acc, bytes, pos + 1)

\* if sign == 0 { val as i128 } else { -(val as i128) }
apply_sign(sign, val, pos, b) ==
  IF sign = 0 THEN POk(Integer(val), pos)
  ELSE IF IsMin(val, U128Bits) /\ OverflowChecks(b) THEN PPanic(pos)
  ELSE POk(Integer(WrappingNeg(val, U128Bits)), pos)

parse_integer(preamble, bytes, pos, b) ==
  LET sign == BitAnd(preamble, 8)
      val == FromNat(BitAnd(preamble, 7), U128Bits)
      m == IF BitAnd(preamble, 16) # 0 THEN parse_integer_loop(val, bytes, pos)
           ELSE POk(val, pos)
  IN IF m.st # "ok" THEN m ELSE apply_sign(sign, m.val, m.pos, b)

\* faulty variant: every nonzero low-bit pattern reads as true
parse_bool_lenient(preamble, pos) ==
  LET val == BitAnd(preamble, 31)
  IN IF val = 0 THEN POk(Bool(FALSE), pos) ELSE POk(Bool(TRUE), pos)

parse_bool(preamble, pos) ==
  LET val == BitAnd(preamble, 31)
  IN IF val = 0 THEN POk(Bool(FALSE), pos)
     ELSE IF val = 1 THEN POk(Bool(TRUE), pos)
     ELSE PErr("Unsupported", pos)

\* out.insert(k, v): a repeated key overwrites
Insert(map, k, v) == [x \in (DOMAIN map) \cup {k} |-> IF x = k THEN v ELSE map[x]]

\* HashMap::with_capacity(..): the empty map
EmptyMap == [x \in {} |-> 0]

RECURSIVE parse_from(_, _, _)
RECURSIVE parse_array_loop(_, _, _, _, _, _)
RECURSIVE parse_record_loop(_, _, _, _, _, _)

\* for _ in 0..len { out.push(Self::parse_from(reader)?) }
parse_array_loop(len, i, out, bytes, pos, b) ==
  IF ~ULt(FromNat(i, UsizeBits), len, UsizeBits) THEN POk(Array(out), pos)
  ELSE LET e == parse_from(bytes, pos, b)
       IN IF e.st # "ok" THEN e
          ELSE parse_array_loop(len, i + 1, Append(out, e.val), bytes, e.pos, b)

\* for _ in 0..len { k = parse_from?; v = parse_from?; Text(k) or InvalidData }
parse_record_loop(len, i, out, bytes, pos, b) ==
  IF ~ULt(FromNat(i, UsizeBits), len, UsizeBits) THEN POk(Record(out), pos)
  ELSE LET k == parse_from(bytes, pos, b)
       IN IF k.st # "ok" THEN k
          ELSE LET v == parse_from(bytes, k.pos, b)
               IN IF v.st # "ok" THEN v
                  ELSE IF k.val.kind = "Text"
                  THEN parse_record_loop(len, i + 1, Insert(out, k.val.chars, v.val),
                                         bytes, v.pos, b)
                  ELSE PErr("InvalidData", v.pos)

parse_from(bytes, pos, b) ==
  IF AtEof(bytes, pos) THEN PErr("UnexpectedEof", pos)
  ELSE
    LET preamble == NextByte(bytes, pos)
        kind == BitAnd(preamble, 224)
        p == pos + 1
    IN CASE kind = 0 -> parse_blob(preamble, bytes, p, b)
         [] kind = 32 -> parse_text(preamble, bytes, p)
         [] kind = 64 ->
              LET l == parse_len(preamble, bytes, p)
              IN IF l.st # "ok" THEN l
                 ELSE parse_array_loop(l.val, 0, <<>>, bytes, l.pos, b)
         [] kind = 96 ->
              LET l == parse_len(preamble, bytes, p)
              IN IF l.st # "ok" THEN l
                 ELSE parse_record_loop(l.val, 0, EmptyMap, bytes, l.pos, b)
         [] kind = 128 -> parse_integer(preamble, bytes, p, b)
         [] kind = 160 -> PPanic(p)   \* unimplemented!()
         [] kind = 192 -> parse_bool(preamble, p)
         [] OTHER -> PErr("InvalidData", p)

(***************************************************************************)
(* Bounds and sampled inputs                                               *)
(***************************************************************************)
\* most elements of a sampled Array / entries of a sampled Record
MaxItems == 2
\* deepest nesting of sampled containers
MaxDepth == 2
\* most chars of a sampled Text built from SmallChars
MaxChars == 2
\* most bits of a sampled Blob
MaxBlobBits == 17
\* most bytes following encode(v) in the reader
MaxTrailer == 2

\* all sequences over S of length at most n
SeqsUpTo(S, n) == UNION {[1..k -> S] : k \in 0..n}

\* 2^b - 1, 2^(b-1) and 1010.. with b significant bits, as 128-bit words
OnesBits(b) == [i \in 0..(U128Bits - 1) |-> IF i < b THEN 1 ELSE 0]
TopBit(b) == [i \in 0..(U128Bits - 1) |-> IF i = b - 1 THEN 1 ELSE 0]
AltBits(b) == [i \in 0..(U128Bits - 1) |-> IF i < b /\ (b - 1 - i) % 2 = 0 THEN 1 ELSE 0]

\* magnitudes of every bit length 0..n
Magnitudes(n) ==
  {Zero(U128Bits)} \cup UNION {{OnesBits(b), TopBit(b), AltBits(b)} : b \in 1..n}

\* every sampled i128: both signs of each magnitude below 2^127, and i128::MIN
I128Min == TopBit(U128Bits)
IntSamples ==
  Magnitudes(U128Bits - 1)
    \cup {WrappingNeg(m, U128Bits) : m \in Magnitudes(U128Bits - 1)}
    \cup {I128Min}

\* scalar values at the edges of the 1-, 2- and 3-byte forms and of the surrogate gap
EdgeChars == {0, 65, 127, 128, 233, 9731, 16383, 16384, 55295, 57344, 77952, 1114111}
SmallChars == {65, 233, 77952}
TextSamples ==
  {Text(<<c>>) : c \in EdgeChars}
    \cup {Text(cs) : cs \in SeqsUpTo(SmallChars, MaxChars)}
    \cup {Text([i \in 1..n |-> 97]) : n \in {15, 16, 17}}

\* blobs of every bit length up to MaxBlobBits, the dead bits of the last byte
\* clear, set or mixed
BlobBytes == {0, 165, 255}
BlobSamples ==
  UNION {{Blob(len, raw) : raw \in [1..((len + 7) \div 8) -> BlobBytes]}
         : len \in 0..MaxBlobBits}

LeafSamples ==
  {Bool(FALSE), Bool(TRUE)} \cup {Integer(v) : v \in IntSamples}
    \cup TextSamples \cup BlobSamples

\* keys of sampled records
KeySamples == {<<97>>, <<233, 77952>>}

\* functions from a set of at most n keys to elements of E
MapsOver(E, n) ==
  UNION {[ks -> E] : ks \in {k \in SUBSET KeySamples : Cardinality(k) <= n}}

ElemLeaves ==
  {Integer(WrappingNeg(FromNat(1, U128Bits), U128Bits)), Text(<<233>>), Blob(3, <<165>>)}

\* a blob inside d containers, records and arrays alternating
RECURSIVE Wrapped(_)
Wrapped(d) ==
  IF d = 0 THEN Blob(11, <<85, 223>>)
  ELSE IF d % 2 = 1 THEN Record([k \in {<<97>>} |-> Wrapped(d - 1)])
  ELSE Array(<<Wrapped(d - 1)>>)

\* what a sampled container of depth d may hold
Elems(d) == ElemLeaves \cup {Wrapped(k) : k \in 1..(d - 1)}

ContainerSamples ==
  {Array(items) : items \in SeqsUpTo(Elems(MaxDepth), MaxItems)}
    \cup {Record(m) : m \in MapsOver(Elems(MaxDepth), MaxItems)}
    \cup {Array([i \in 1..n |-> Bool(TRUE)]) : n \in {15, 16}}

Values == LeafSamples \cup ContainerSamples

Builds == {"debug", "release"}

\* what follows the encoding in the reader: nothing, or another value's bytes
Trailers == {[i \in 1..k |-> IF i % 2 = 1 THEN 193 ELSE 0] : k \in 0..MaxTrailer}

NoValue == [kind |-> "None"]
NoResult == [st |-> "none"]

(***************************************************************************)
(* Encode, then decode: the round trip of assert_serializes, with the      *)
(* reader holding the encoding whole, followed by more bytes, or cut short *)
(***************************************************************************)
Init ==
  /\ build \in Builds
  /\ value \in Values
  /\ into = <<>>
  /\ input = <<>>
  /\ result = NoResult
  /\ pc = "start"

\* val.serialize_into(&mut out)
Serialize ==
  /\ pc = "start"
  /\ \E o \in serialize_into(value, <<>>, build) :
       /\ into' = o.out
       /\ pc' = IF o.st = "ok" THEN "serialized" ELSE "panicked"
  /\ UNCHANGED <<build, value, input, result>>

\* a reader over the encoding followed by the bytes s
LoadFollowed ==
  /\ pc = "serialized"
  /\ \E s \in Trailers : input' = into \o s
  /\ pc' = "loaded"
  /\ UNCHANGED <<build, value, into, result>>

\* a reader over a proper prefix of the encoding
LoadTruncated ==
  /\ pc = "serialized"
  /\ \E n \in 0..(Len(into) - 1) : input' = SubSeq(into, 1, n)
  /\ pc' = "truncated"
  /\ UNCHANGED <<build, value, into, result>>

\* Value::parse_from(&mut reader)
Parse ==
  /\ pc \in {"loaded", "truncated"}
  /\ result' = parse_from(input, 0, build)
  /\ pc' = IF pc = "loaded" THEN "parsed" ELSE "parsed_truncated"
  /\ UNCHANGED <<build, value, into, input>>

Next == Serialize \/ LoadFollowed \/ LoadTruncated \/ Parse

Spec == Init /\ [][Next]_vars

(***************************************************************************)
(* Properties of the round trip                                            *)
(***************************************************************************)
\* C1: round trip.  For every sampled Value (every variant, both i128
\* extremes), serialize_into returns, and parse_from of exactly the bytes it
\* produced returns Ok(v') with v' == v.
RoundTrip ==
  /\ pc # "panicked"
  /\ (pc = "parsed" /\ input = into) =>
       (result.st = "ok" /\ ValueEq(result.val, value))

\* C2: exact consumption.  With the reader holding encode(v) followed by any
\* bytes s, parse_from returns v and leaves the reader at the start of s.
ExactConsumption ==
  pc = "parsed" =>
    /\ result.st = "ok"
    /\ ValueEq(result.val, value)
    /\ result.pos = Len(into)

\* a nested container holding a Blob was decoded with bytes following it
ExactConsumptionWitness ==
  /\ pc = "parsed"
  /\ Len(input) > Len(into)
  /\ value.kind = "Array"
  /\ Len(value.items) = 2
  /\ value.items[1].kind = "Record"
  /\ value.items[2].kind = "Blob"
  /\ result.st = "ok"
  /\ result.pos = Len(into)

\* header byte of the encoding with the sign bit cleared
ClearSign(byte) == byte - BitAnd(byte, 8)

\* C4: sign law.  For n # 0 with -n representable, encode(Integer(n)) and
\* encode(Integer(-n)) have the same length and agree on every bit except
\* header bit 3, which is set exactly for the negative one; each decodes to
\* its own value; and the sign bit is never emitted with a zero magnitude.
SignLaw ==
  (value.kind = "Integer" /\ pc \in {"serialized", "parsed"}) =>
    /\ (value.val # Zero(U128Bits) /\ ~IsMin(value.val, U128Bits)) =>
         LET other == serialize_signed_preamble(128,
                        WrappingNeg(value.val, U128Bits), <<>>, build)
         IN /\ other.st = "ok"
            /\ Len(other.out) = Len(into)
            /\ Tail(other.out) = Tail(into)
            /\ ClearSign(other.out[1]) = ClearSign(into[1])
            /\ BitAnd(into[1], 8) = (IF IsNegative(value.val, U128Bits) THEN 8 ELSE 0)
            /\ BitAnd(other.out[1], 8) = 8 - BitAnd(into[1], 8)
            /\ pc = "parsed" => (result.st = "ok" /\ result.val = value)
    /\ value.val = Zero(U128Bits) => into = <<128>>
    /\ BitAnd(into[1], 8) = 8 =>
         (BitAnd(into[1], 7) # 0 \/ \E i \in 2..Len(into) : BitAnd(into[i], 127) # 0)

\* a negative integer with continuation bytes went through encode and decode
SignLawWitness ==
  /\ pc = "parsed"
  /\ value.kind = "Integer"
  /\ IsNegative(value.val, U128Bits)
  /\ ~IsMin(value.val, U128Bits)
  /\ Len(into) > 10
  /\ BitAnd(into[1], 8) = 8
  /\ result.st = "ok"

\* C6: truncated input.  parse_from of any proper prefix of encode(v), the
\* empty one included, returns the UnexpectedEof error.
TruncatedIsEof ==
  pc = "parsed_truncated" =>
    (result.st = "err" /\ result.kind = "UnexpectedEof")

\* an array was cut inside the payload of the Blob that the Record in its last
\* element holds, and the cut input was decoded
TruncatedIsEofWitness ==
  /\ pc = "parsed_truncated"
  /\ result.st = "err"
  /\ value.kind = "Array"
  /\ Len(value.items) = 2
  /\ value.items[2] = Wrapped(1)
  /\ Len(input) = Len(into) - 1

(***************************************************************************)
(* The preamble codec on its own: every bit length of a 128-bit word       *)
(***************************************************************************)
Word(val) == [kind |-> "Word", val |-> val]

WordSamples == Magnitudes(U128Bits) \cup IntSamples

\* the type tags serialize_unsigned_preamble is called with
LengthHeaders == {0, 32, 64, 96}

InitPreamble ==
  /\ build \in Builds
  /\ value \in {Word(w) : w \in WordSamples}
  /\ into = <<>>
  /\ input = <<>>
  /\ result = NoResult
  /\ pc = "start"

\* serialize_signed_preamble(0b1000_0000, value as i128, &mut into)
SignedPreamble ==
  /\ pc = "start"
  /\ LET o == serialize_signed_preamble(128, value.val, <<>>, build)
     IN /\ into' = o.out
        /\ pc' = IF o.st = "ok" THEN "signed" ELSE "panicked"
  /\ UNCHANGED <<build, value, input, result>>

\* serialize_unsigned_preamble(header, value as u128, &mut into)
UnsignedPreamble ==
  /\ pc = "start"
  /\ \E header \in LengthHeaders :
       into' = serialize_unsigned_preamble(header, value.val, <<>>)
  /\ pc' = "unsigned"
  /\ UNCHANGED <<build, value, input, result>>

NextPreamble == SignedPreamble \/ UnsignedPreamble

SpecPreamble == InitPreamble /\ [][NextPreamble]_vars

\* |v| of an i128 as a u128
Magnitude(v) == IF IsNegative(v, U128Bits) THEN WrappingNeg(v, U128Bits) ELSE v

\* ceil(x / 7)
Ceil7(x) == CHOOSE n \in 0..x : 7 * n >= x /\ 7 * n < x + 7

\* the bytes a magnitude of b bits takes when the header holds h of them
MinimalBytes(b, h) == IF b <= h THEN 1 ELSE 1 + Ceil7(b - h)

\* bit 4 of the header is set iff bytes follow, every byte but the last has
\* bit 7 set, and the leading chunks are not all zero
WellFormedPreamble(bytes, chunkMask) ==
  /\ (BitAnd(bytes[1], 16) = 16) <=> (Len(bytes) > 1)
  /\ \A i \in 2..Len(bytes) : (BitAnd(bytes[i], 128) = 128) <=> (i < Len(bytes))
  /\ Len(bytes) > 1 => (BitAnd(bytes[1], chunkMask) # 0 \/ BitAnd(bytes[2], 127) # 0)

\* C3: minimal length.  A magnitude of b bits takes 1 byte when it fits the
\* header (3 bits signed, 4 unsigned) and 1 + ceil((b - 3) / 7), resp.
\* 1 + ceil((b - 4) / 7), bytes otherwise; the continuation flag is set iff a
\* continuation byte follows; the first continuation byte is never avoidable;
\* magnitude 0 is a single byte.
MinimalLength ==
  /\ pc = "signed" =>
       /\ Len(into) = MinimalBytes(BitLen(Magnitude(value.val), U128Bits), 3)
       /\ WellFormedPreamble(into, 7)
       /\ value.val = Zero(U128Bits) => Len(into) = 1
  /\ pc = "unsigned" =>
       /\ Len(into) = MinimalBytes(BitLen(value.val, U128Bits), 4)
       /\ WellFormedPreamble(into, 15)
       /\ value.val = Zero(U128Bits) => Len(into) = 1

\* a negative integer whose magnitude has 10 bits, the most that fit one
\* continuation byte, was encoded in two bytes
MinimalLengthWitness ==
  /\ pc = "signed"
  /\ IsNegative(value.val, U128Bits)
  /\ BitLen(Magnitude(value.val), U128Bits) = 10
  /\ Len(into) = 2

(***************************************************************************)
(* Decoding arbitrary bytes: the reader holds bytes no encoder need have    *)
(* produced                                                                *)
(***************************************************************************)
\* most continuation bytes of a crafted integer or length preamble
MaxCont == 20
\* most bytes of a crafted character
MaxKim == 6
\* most bytes after a crafted header byte
MaxTail == 2
\* most payload bytes after a crafted blob preamble
MaxPayload == 3

\* k continuation bytes: chunk first, then chunk mid repeated, then chunk last,
\* bit 7 set on all but the last
ContBytes(k, first, mid, last) ==
  [i \in 1..k |-> IF i = k THEN last
                  ELSE 128 + (IF i = 1 THEN first ELSE mid)]

ContChunks == {0, 1, 127}
ContSeqs(n) ==
  {ContBytes(k, f, m, l) : k \in 1..n, f \in ContChunks, m \in {0, 127}, l \in ContChunks}

\* every header byte, followed by a few bytes
TailBytes == {0, 65, 193}
HeaderInputs == {<<h>> \o t : h \in 0..255, t \in SeqsUpTo(TailBytes, MaxTail)}

\* Integer-tagged headers followed by continuation bytes
IntegerInputs == {<<h>> \o c : h \in 128..159, c \in ContSeqs(MaxCont)}

\* a Text of one char whose bytes carry the chunks of a crafted number
KimChunks == {0, 1, 3, 16, 48, 65, 67, 68, 127}
KimSeqs ==
  {ContBytes(k, f, m, l) : k \in 1..3, f \in KimChunks, m \in KimChunks, l \in KimChunks}
    \cup {ContBytes(k, f, 0, l) : k \in 4..MaxKim, f \in {1, 16, 64}, l \in {0, 65}}
TextInputs == {<<33>> \o c : c \in KimSeqs}

\* a Record of one entry: a key slot holding each variant, then a value slot
\* that is missing, cut short, invalid or valid; and a Record of two entries
\* whose second key is not a Text
KeySlots == {<<192>>, <<129>>, <<0>>, <<64>>, <<96>>, <<33, 97>>, <<32>>}
ValueSlots == {<<>>, <<192>>, <<129>>, <<144>>, <<33>>, <<224>>, <<194>>, <<160>>}
RecordInputs ==
  {<<97>> \o k \o v : k \in KeySlots, v \in ValueSlots}
    \cup {<<98, 33, 97, 192>> \o k \o v : k \in KeySlots, v \in ValueSlots}

\* Blob preambles of every short length, and of crafted long lengths, followed
\* by payload bytes
PayloadBytes == {0, 165, 255}
Payloads == SeqsUpTo(PayloadBytes, MaxPayload)
BlobInputs ==
  {<<len>> \o p : len \in 0..15, p \in Payloads}
    \cup {<<16, len>> \o p : len \in 16..(8 * MaxPayload), p \in Payloads}
    \cup {<<h>> \o c \o p : h \in {16, 17}, c \in ContSeqs(MaxCont),
                            p \in {<<>>, <<165>>}}

CraftedInputs ==
  HeaderInputs \cup IntegerInputs \cup TextInputs \cup RecordInputs \cup BlobInputs

InitDecode ==
  /\ build \in Builds
  /\ value = NoValue
  /\ into = <<>>
  /\ input \in CraftedInputs
  /\ result = NoResult
  /\ pc = "loaded"

SpecDecode == InitDecode /\ [][Parse]_vars

(***************************************************************************)
(* Properties of decoding                                                  *)
(***************************************************************************)
\* index of the first byte at or after from with bit 7 clear, 0 if there is none
ContEnd(bytes, from) ==
  IF \E i \in from..Len(bytes) : BitAnd(bytes[i], 128) = 0
  THEN CHOOSE i \in from..Len(bytes) :
         /\ BitAnd(bytes[i], 128) = 0
         /\ \A j \in from..(i - 1) : BitAnd(bytes[j], 128) = 128
  ELSE 0

\* the number written by headBits bits of head followed by the low 7 bits of
\* each chunk, most significant first, as an unbounded bit vector
WideWidth(headBits, chunks) == headBits + 7 * Len(chunks)
WideValue(head, headBits, chunks) ==
  [i \in 0..(WideWidth(headBits, chunks) - 1) |->
     IF i < 7 * Len(chunks)
     THEN (BitAnd(chunks[Len(chunks) - (i \div 7)], 127) \div Pow2(i % 7)) % 2
     ELSE (head \div Pow2(i - 7 * Len(chunks))) % 2]

\* bit i of a bit vector, 0 past its width
BitOf(v, i) == IF i \in DOMAIN v THEN v[i] ELSE 0

\* the unbounded number wide equals the natural n (n < 2^30)
WideEqualsNat(wide, n) ==
  \A i \in (DOMAIN wide) \cup (0..29) :
     BitOf(wide, i) = (IF i < 30 THEN (n \div Pow2(i)) % 2 ELSE 0)

\* the i128 val is sign * wide, sign being -1 when negative and +1 otherwise
Denotes(val, negative, wide) ==
  /\ \A i \in (DOMAIN wide) \cup (DOMAIN val) :
        BitOf(wide, i) = BitOf(Magnitude(val), i)
  /\ (\E i \in DOMAIN wide : wide[i] = 1) => (IsNegative(val, U128Bits) <=> negative)

\* the continuation bytes of a preamble whose header is bytes[1]
PreambleEnd(bytes) ==
  IF BitAnd(bytes[1], 16) = 16 THEN ContEnd(bytes, 2) ELSE 1
PreambleChunks(bytes) == SubSeq(bytes, 2, PreambleEnd(bytes))

Tag(bytes) == bytes[1] \div 32

\* C10: an Integer-tagged header with k >= 0 terminated continuation bytes
\* decodes to Integer(s * M), M being the header's low 3 bits followed by the
\* low 7 bits of each continuation byte and s the header's sign, for every k.
IntegerFullMagnitude ==
  (pc = "parsed" /\ Tag(input) = 4 /\ PreambleEnd(input) # 0) =>
    /\ result.st = "ok"
    /\ result.val.kind = "Integer"
    /\ Denotes(result.val.val, BitAnd(input[1], 8) = 8,
               WideValue(BitAnd(input[1], 7), 3, PreambleChunks(input)))

\* the chunks of the one char of a Text of length 1
KimEnd(bytes) == ContEnd(bytes, 2)
KimValue(bytes) == WideValue(0, 0, SubSeq(bytes, 2, KimEnd(bytes)))

\* the low k bits of an unbounded number, as a natural (k <= 30)
RECURSIVE WideLow(_, _)
WideLow(wide, k) ==
  IF k = 0 THEN 0 ELSE BitOf(wide, k - 1) * Pow2(k - 1) + WideLow(wide, k - 1)

\* the unbounded number is a Unicode scalar value
WideIsScalar(wide) ==
  /\ \A i \in DOMAIN wide : i >= 21 => wide[i] = 0
  /\ LET n == WideLow(wide, 21)
     IN n <= 55295 \/ (n >= 57344 /\ n <= 1114111)

\* C8: a terminated sequence of char bytes, however long, whose accumulated
\* value is not a Unicode scalar value fails with InvalidData.
CodePointValidity ==
  (/\ pc = "parsed"
   /\ input[1] = 33
   /\ KimEnd(input) # 0
   /\ ~WideIsScalar(KimValue(input))) =>
    (result.st = "err" /\ result.kind = "InvalidData")

\* C5: a Record whose first key slot decodes to a Value that is not a Text
\* fails with InvalidData, whatever follows the key.
RecordKeyType ==
  (pc = "parsed" /\ input[1] = 97) =>
    LET k == parse_from(input, 1, build)
    IN (k.st = "ok" /\ k.val.kind # "Text") =>
         (result.st = "err" /\ result.kind = "InvalidData")

\* the variant each tag decodes to
TagVariant(tag) ==
  CASE tag = 0 -> "Blob"
    [] tag = 1 -> "Text"
    [] tag = 2 -> "Array"
    [] tag = 3 -> "Record"
    [] tag = 4 -> "Integer"
    [] tag = 6 -> "Bool"
    [] OTHER -> "none"

\* C9: tag dispatch.  parse_from returns Ok only with the variant of the
\* header's tag; tag 111 is InvalidData, tag 101 fails with no Value, and tag
\* 110 is Bool(false) for low bits 0, Bool(true) for 1 and Unsupported
\* otherwise, each of the three having read the header byte only.
TagDispatch ==
  pc = "parsed" =>
    /\ result.st = "ok" => result.val.kind = TagVariant(Tag(input))
    /\ Tag(input) = 7 => result = PErr("InvalidData", 1)
    /\ Tag(input) = 5 => (result.st = "panic" /\ result.pos = 1)
    /\ Tag(input) = 6 =>
         result = (CASE BitAnd(input[1], 31) = 0 -> POk(Bool(FALSE), 1)
                     [] BitAnd(input[1], 31) = 1 -> POk(Bool(TRUE), 1)
                     [] OTHER -> PErr("Unsupported", 1))

\* a Bool-tagged byte with a reserved low-bit pattern was decoded with bytes
\* after it in the reader
TagDispatchWitness ==
  /\ pc = "parsed"
  /\ Len(input) > 1
  /\ Tag(input) = 6
  /\ BitAnd(input[1], 31) = 2
  /\ result.st = "err"
  /\ result.pos = 1

\* the input with the unused low bits of the last payload byte flipped
FlipDeadBits(bytes, last, dead) ==
  [bytes EXCEPT ![last] = @ - (@ % Pow2(dead)) + (Pow2(dead) - 1 - (@ % Pow2(dead)))]

\* C7: blob exactness.  A Blob preamble announcing L bits, when decoded,
\* yields a Blob of exactly L bits, the first L bits of the payload, having
\* read exactly ceil(L / 8) payload bytes; flipping the unused low bits of the
\* last payload byte yields an equal Blob; a Blob of another length is unequal.
BlobExactness ==
  (pc = "parsed" /\ Tag(input) = 0 /\ PreambleEnd(input) # 0 /\ result.st = "ok") =>
    LET pe == PreambleEnd(input)
        L == WideValue(BitAnd(input[1], 15), 4, PreambleChunks(input))
        len == result.val.len
        read == result.pos - pe
        dead == 8 * read - len
    IN /\ result.val.kind = "Blob"
       /\ WideEqualsNat(L, len)
       /\ 8 * read >= len /\ 8 * read < len + 8
       /\ BlobBits(len, result.val.raw)
            = [i \in 1..len |-> BitAt(SubSeq(input, pe + 1, Len(input)), i)]
       /\ (dead > 0 /\ dead < 8) =>
            LET alt == parse_from(FlipDeadBits(input, result.pos, dead), 0, build)
            IN alt.st = "ok" /\ alt.val.raw # result.val.raw
               /\ ValueEq(alt.val, result.val)
       /\ len > 0 => ~ValueEq(result.val, Blob(len - 1, result.val.raw))

====
